---- MODULE Spec2Model ----
(***************************************************************************)
(* Model of AlertmanagerConfigEditor.tsx: the editor view of a tenant's    *)
(* Alertmanager configuration.  The state is the component's state         *)
(* (configRef, the configValid verdict, the timers of the debounced        *)
(* functions created by handleConfigChange, the schema-validation promises *)
(* in flight), the hooks' state it renders from (tenant, alertmanager,     *)
(* formState), the rendered output, the dispatched save requests and the   *)
(* editor widget's markers.  Time is in milliseconds and is kept relative: *)
(* a timer holds the time left until it expires.                           *)
(*                                                                         *)
(* mounted tells whether the component is still on the page.               *)
(*                                                                         *)
(* History variables, which the code does not read: nEdits, sinceEdit,     *)
(* sinceLeading, bursts, calls, last, lastWriter, prevWriter, unhandled,   *)
(* lastClick, writes, held.                                                *)
(***************************************************************************)
EXTENDS Integers, Sequences, FiniteSets, TLC

VARIABLES configRef, configValid, timers, promises, markers,
          tenant, alertmanager, formState, rendered, dispatched, pendingSaves,
          nEdits, sinceEdit, sinceLeading, bursts, calls, last,
          lastWriter, prevWriter, unhandled, lastClick, writes, held, mounted

vars == <<configRef, configValid, timers, promises, markers,
          tenant, alertmanager, formState, rendered, dispatched, pendingSaves,
          nEdits, sinceEdit, sinceLeading, bursts, calls, last,
          lastWriter, prevWriter, unhandled, lastClick, writes, held, mounted>>

pipelineVars == <<configRef, configValid, timers, promises, markers,
                  nEdits, sinceEdit, sinceLeading, bursts, calls, last,
                  lastWriter, prevWriter, unhandled, writes, held>>

viewVars == <<tenant, alertmanager, formState, rendered, dispatched,
              pendingSaves, lastClick, mounted>>

(***************************************************************************)
(* Bounds of the model.                                                    *)
(***************************************************************************)
\* How many change events the editor delivers.
MaxEdits == 2

\* How many times the publish button is clicked.
MaxPublish == 1

\* Time passes in steps of 100 ms.
Delays == {100}

(***************************************************************************)
(* Documents.  A text is a sequence of lines; a line is either a           *)
(* "key: value" line or a malformed one.                                   *)
(***************************************************************************)
GoodText == <<"route: {receiver: r}", "receivers: [{name: r}]">>

NoRequiredText == <<"receivers: [{name: r}]">>

MalformedText == <<"route: {receiver: r}", "receivers: [{name: r}">>

EmptyText == <<>>

\* The texts a change event carries; a change event's text differs from the
\* text before it.
Texts == {GoodText, NoRequiredText, MalformedText}

KeyOf(line) ==
    CASE line = "route: {receiver: r}" -> "route"
      [] line = "receivers: [{name: r}]" -> "receivers"
      [] OTHER -> "?"

WellFormed(line) ==
    line \in {"route: {receiver: r}", "receivers: [{name: r}]"}

\* yamlParser.load(text, {schema: JSON_SCHEMA}): the mapping's keys, or a
\* thrown YAMLException (ok = FALSE).
yamlLoad(text) ==
    IF \A i \in 1..Len(text) : WellFormed(text[i])
    THEN [ok |-> TRUE, data |-> {KeyOf(text[i]) : i \in 1..Len(text)}]
    ELSE [ok |-> FALSE, data |-> {}]

RequiredFields == {"route"}

KnownFields == {"route", "receivers"}

\* alertmanagerConfigSchema.validate(data, {strict: true}): whether the
\* promise resolves (TRUE) or rejects (FALSE).
schemaValidate(data) ==
    /\ RequiredFields \subseteq data
    /\ data \subseteq KnownFields

(***************************************************************************)
(* The editor widget.                                                      *)
(***************************************************************************)
\* The filename prop of YamlEditor, passed back by its onChange.
Filename == "alertmanager-config.yaml"

Markers == {"marker"}

\* editor.getModelMarkers({resource: monaco.Uri.parse(filename)})
getModelMarkers(filename) == IF filename = Filename THEN markers ELSE {}

(***************************************************************************)
(* validationCheck.  options is <<>> when the argument is left out and     *)
(* <<o>> when o is passed; current is configRef.current at the call.  The  *)
(* result says what one call does at once: whether it queried the markers, *)
(* how often it called the parser and the validator, the text it parsed,   *)
(* the data handed to the validator, the verdict it writes synchronously   *)
(* ("none": it writes nothing itself) and whether an exception leaves the  *)
(* call.                                                                   *)
(***************************************************************************)
NoOptions == <<>>

useModelMarkers(options) == Len(options) > 0 /\ options[1].useModelMarkers

\* const [, setConfigValid] = useState<boolean | null>(null): the verdict
\* after setConfigValid(v).
setConfigValid(v) == IF v THEN "true" ELSE "false"

\* Faulty variant: the try/catch around the parse is missing, so the parser's
\* exception leaves the call and nothing is written.
validationCheckNoCatch(filename, options, current) ==
    LET queried == useModelMarkers(options)
        found == IF queried THEN getModelMarkers(filename) ELSE {}
        parsedData == yamlLoad(current)
    IN  IF Cardinality(found) = 0
        THEN IF parsedData.ok
             THEN [queried |-> queried, parseCalls |-> 1, validateCalls |-> 1,
                   text |-> current, data |-> parsedData.data,
                   write |-> "none", thrown |-> FALSE]
             ELSE [queried |-> queried, parseCalls |-> 1, validateCalls |-> 0,
                   text |-> current, data |-> {},
                   write |-> "none", thrown |-> TRUE]
        ELSE [queried |-> queried, parseCalls |-> 0, validateCalls |-> 0,
              text |-> EmptyText, data |-> {},
              write |-> setConfigValid(FALSE), thrown |-> FALSE]

\* Faulty variant: the validator call sits after the try/catch of the parse,
\* so an attempt whose parse failed writes false and validates as well.
validationCheckFallsThrough(filename, options, current) ==
    LET queried == useModelMarkers(options)
        found == IF queried THEN getModelMarkers(filename) ELSE {}
        parsedData == yamlLoad(current)
    IN  IF Cardinality(found) = 0
        THEN IF parsedData.ok
             THEN [queried |-> queried, parseCalls |-> 1, validateCalls |-> 1,
                   text |-> current, data |-> parsedData.data,
                   write |-> "none", thrown |-> FALSE]
             ELSE [queried |-> queried, parseCalls |-> 1, validateCalls |-> 1,
                   text |-> current, data |-> {},
                   write |-> setConfigValid(FALSE), thrown |-> FALSE]
        ELSE [queried |-> queried, parseCalls |-> 0, validateCalls |-> 0,
              text |-> EmptyText, data |-> {},
              write |-> setConfigValid(FALSE), thrown |-> FALSE]

validationCheck(filename, options, current) ==
    LET queried == useModelMarkers(options)
        found == IF queried THEN getModelMarkers(filename) ELSE {}
        parsedData == yamlLoad(current)
    IN  IF Cardinality(found) = 0
        THEN IF parsedData.ok
             THEN [queried |-> queried, parseCalls |-> 1, validateCalls |-> 1,
                   text |-> current, data |-> parsedData.data,
                   write |-> "none", thrown |-> FALSE]
             ELSE [queried |-> queried, parseCalls |-> 1, validateCalls |-> 0,
                   text |-> current, data |-> {},
                   write |-> setConfigValid(FALSE), thrown |-> FALSE]
        ELSE [queried |-> queried, parseCalls |-> 0, validateCalls |-> 0,
              text |-> EmptyText, data |-> {},
              write |-> setConfigValid(FALSE), thrown |-> FALSE]

(***************************************************************************)
(* lodash debounce.  handleConfigChange creates both debounced functions   *)
(* anew in every call, so each one is called exactly once, on a fresh      *)
(* instance (no timer, no lastCallTime).                                   *)
(***************************************************************************)
\* debounce(validationCheck, 300, {leading: true, trailing: false})
validationCheckOnChangeStart ==
    [wait |-> 300, leading |-> TRUE, trailing |-> FALSE, maxing |-> FALSE,
     maxWait |-> 0]

\* Faulty variant: the pause check is set up without its trailing edge.
pauseWithoutTrailing ==
    [wait |-> 500, leading |-> FALSE, trailing |-> FALSE, maxing |-> TRUE,
     maxWait |-> 5000]

\* debounce(validationCheck, 500, {maxWait: 5000}); leading and trailing
\* keep lodash's defaults.
checkValidationOnChangePause ==
    [wait |-> 500, leading |-> FALSE, trailing |-> TRUE, maxing |-> TRUE,
     maxWait |-> 5000]

Max(a, b) == IF a >= b THEN a ELSE b

Min(a, b) == IF a <= b THEN a ELSE b

\* The first call of a fresh debounced function (leadingEdge): the timer is
\* started for `wait`, func is invoked at once if leading, and invoking it
\* clears lastArgs.  text is the edit's text (history).
debounceCall(d, kind, edit, filename, text) ==
    [invokeNow |-> d.leading,
     timer |-> [edit |-> edit, kind |-> kind, filename |-> filename,
                remaining |-> d.wait,
                elapsed |-> 0,
                wait |-> d.wait,
                maxing |-> d.maxing,
                maxWait |-> IF d.maxing THEN Max(d.maxWait, d.wait) ELSE 0,
                trailing |-> d.trailing,
                hasArgs |-> ~d.leading,
                text |-> text]]

\* time - lastCallTime: the time since the debounced function's only call
\* (and, if leading, its only invocation).
sinceLastCall(tm) == tm.elapsed

\* shouldInvoke(time), evaluated by timerExpired.
shouldInvoke(tm) ==
    \/ sinceLastCall(tm) >= tm.wait
    \/ sinceLastCall(tm) < 0
    \/ tm.maxing /\ sinceLastCall(tm) >= tm.maxWait

\* trailingEdge(time): func is invoked only if trailing and lastArgs is set.
trailingEdgeInvokes(tm) == tm.trailing /\ tm.hasArgs

(***************************************************************************)
(* Rendering.                                                              *)
(***************************************************************************)
defaultData == [remoteValidation |-> [success |-> TRUE, error_raw_response |-> ""]]

\* Faulty variant: CondRender when={response.success} instead of unless.
ErrorPanelWhenSuccess(response) ==
    IF response.success
    THEN [shown |-> TRUE, text |-> response.error_raw_response]
    ELSE [shown |-> FALSE, text |-> ""]

\* <ErrorPanel response={...} />: CondRender unless={response.success}.
ErrorPanel(response) ==
    IF response.success
    THEN [shown |-> FALSE, text |-> ""]
    ELSE [shown |-> TRUE, text |-> response.error_raw_response]

NoPanel == [shown |-> FALSE, text |-> ""]

\* Faulty variant: the button is also disabled unless the local verdict is true.
RenderGatedByVerdict(tn, fs) ==
    IF ~tn.loaded
    THEN [skeleton |-> TRUE, publishDisabled |-> TRUE, errorPanel |-> NoPanel]
    ELSE [skeleton |-> FALSE,
          publishDisabled |-> (fs.status # "active" \/ configValid # "true"),
          errorPanel |-> ErrorPanel(fs.data.remoteValidation)]

\* What the component returns: the skeleton while there is no tenant, else
\* the editor card with the publish button and the error panel.
Render(tn, fs) ==
    IF ~tn.loaded
    THEN [skeleton |-> TRUE, publishDisabled |-> TRUE, errorPanel |-> NoPanel]
    ELSE [skeleton |-> FALSE,
          publishDisabled |-> (fs.status # "active"),
          errorPanel |-> ErrorPanel(fs.data.remoteValidation)]

(***************************************************************************)
(* The environment's values.                                               *)
(***************************************************************************)
NoTenant == [loaded |-> FALSE, name |-> ""]

Tenants == {[loaded |-> TRUE, name |-> "tenant1"], [loaded |-> TRUE, name |-> ""]}

NoAlertmanager == [loaded |-> FALSE, header |-> "", config |-> EmptyText]

StoredAlertmanager == [loaded |-> TRUE, header |-> "hdr", config |-> GoodText]

FormStatuses == {"active", "validating"}

Responses == {[success |-> TRUE, error_raw_response |-> ""],
              [success |-> FALSE, error_raw_response |-> "X"]}

FormId == "form1"

(***************************************************************************)
(* Initial state: the component has mounted, nothing was edited.           *)
(***************************************************************************)
NoAttempt ==
    [id |-> 0, kind |-> "none", edit |-> 0,
     read |-> EmptyText, scheduledWith |-> EmptyText, markersPresent |-> FALSE,
     queried |-> FALSE, parseCalls |-> 0, validateCalls |-> 0,
     thrown |-> FALSE, wrote |-> "none", gap |-> 0, delay |-> 0,
     readEdit |-> 0, disposed |-> FALSE]

NoWriter == [id |-> 0, read |-> EmptyText, async |-> FALSE]

NoClick == [n |-> 0, verdict |-> "null", named |-> FALSE, sent |-> FALSE]

Init ==
    /\ alertmanager = StoredAlertmanager
    /\ configRef = alertmanager.config
    /\ configValid = "null"
    /\ timers = {}
    /\ promises = {}
    /\ markers = {}
    /\ tenant = NoTenant
    /\ formState = [status |-> "active", data |-> defaultData]
    /\ rendered = Render(tenant, formState)
    /\ dispatched = <<>>
    /\ pendingSaves = 0
    /\ nEdits = 0
    /\ sinceEdit = checkValidationOnChangePause.wait
    /\ sinceLeading = validationCheckOnChangeStart.wait
    /\ bursts = 0
    /\ calls = [leading |-> 0, trailing |-> 0]
    /\ last = NoAttempt
    /\ lastWriter = NoWriter
    /\ prevWriter = NoWriter
    /\ unhandled = 0
    /\ lastClick = NoClick
    /\ writes = 0
    /\ held = {configRef}
    /\ mounted = TRUE

(***************************************************************************)
(* One call of validationCheck by a debounced function.  tm is the         *)
(* function's timer record, out what validationCheck does, version the     *)
(* number of the edit that put the text it reads into configRef.           *)
(***************************************************************************)
NextId == calls.leading + calls.trailing + 1

Attempt(tm, out, version) ==
    [id |-> NextId, kind |-> tm.kind, edit |-> tm.edit,
     read |-> IF out.parseCalls > 0 THEN out.text ELSE EmptyText,
     scheduledWith |-> tm.text,
     markersPresent |-> markers # {},
     queried |-> out.queried,
     parseCalls |-> out.parseCalls, validateCalls |-> out.validateCalls,
     thrown |-> out.thrown,
     wrote |-> out.write,
     gap |-> IF tm.kind = "leading" THEN sinceLeading ELSE 0,
     delay |-> sinceLastCall(tm),
     readEdit |-> IF out.parseCalls > 0 THEN version ELSE 0,
     disposed |-> ~mounted]

Writer(id, read, async) == [id |-> id, read |-> read, async |-> async]

\* Faulty variant: an attempt that starts a schema validation sets the verdict
\* back to unknown until the promise settles.
InvokeResetting(tm, out, version) ==
    LET a == Attempt(tm, out, version)
    IN  /\ last' = a
        /\ calls' = [calls EXCEPT ![tm.kind] = @ + 1]
        /\ configValid' = IF out.write = "none" THEN "null" ELSE out.write
        /\ lastWriter' = IF out.write = "none" THEN lastWriter
                         ELSE Writer(a.id, a.read, FALSE)
        /\ prevWriter' = IF out.write = "none" THEN prevWriter ELSE lastWriter
        /\ promises' = IF out.validateCalls > 0
                       THEN promises \cup {[id |-> a.id, read |-> a.read,
                                             data |-> out.data]}
                       ELSE promises
        /\ unhandled' = IF out.thrown THEN unhandled + 1 ELSE unhandled
        /\ writes' = IF out.write = "none" THEN writes ELSE writes + 1

Invoke(tm, out, version) ==
    LET a == Attempt(tm, out, version)
    IN  /\ last' = a
        /\ calls' = [calls EXCEPT ![tm.kind] = @ + 1]
        /\ configValid' = IF out.write = "none" THEN configValid ELSE out.write
        /\ lastWriter' = IF out.write = "none" THEN lastWriter
                         ELSE Writer(a.id, a.read, FALSE)
        /\ prevWriter' = IF out.write = "none" THEN prevWriter ELSE lastWriter
        /\ promises' = IF out.validateCalls > 0
                       THEN promises \cup {[id |-> a.id, read |-> a.read,
                                             data |-> out.data]}
                       ELSE promises
        /\ unhandled' = IF out.thrown THEN unhandled + 1 ELSE unhandled
        /\ writes' = IF out.write = "none" THEN writes ELSE writes + 1

(***************************************************************************)
(* handleConfigChange(newConfig, filename): the editor's onChange.  The    *)
(* editor exists only once the tenant is there.  An exception that left    *)
(* the leading call would leave the handler before the second call.        *)
(***************************************************************************)
\* Faulty variant: the two calls are made before the assignment to the cell.
cellBeforeAssignment(newConfig) == [text |-> configRef, edit |-> nEdits]

\* configRef.current = newConfig runs before the two calls are made: the
\* cell as a call made by the handler reads it, and the edit it is of.
cellAtCalls(newConfig) == [text |-> newConfig, edit |-> nEdits + 1]

\* Faulty variant: one pause function shared by all calls, which clears its
\* pending timer when it is called again.
timersOfSharedPause == {tm \in timers : tm.kind # "trailing"}

\* The two debounced functions are created by the call itself, so the
\* timers of the functions earlier calls created are out of their reach.
timersOfEarlierCalls == timers

handleConfigChange(newConfig, filename) ==
    /\ mounted
    /\ ~rendered.skeleton
    /\ nEdits < MaxEdits
    /\ LET e == nEdits + 1
           start == debounceCall(validationCheckOnChangeStart, "leading", e,
                                 filename, newConfig)
           pause == debounceCall(checkValidationOnChangePause, "trailing", e,
                                 filename, newConfig)
           cell == cellAtCalls(newConfig)
           out == validationCheck(filename, NoOptions, cell.text)
       IN  /\ configRef' = newConfig
           /\ held' = held \cup {newConfig}
           /\ IF start.invokeNow
              THEN /\ Invoke(start.timer, out, cell.edit)
                   /\ sinceLeading' = 0
              ELSE UNCHANGED <<last, calls, configValid, lastWriter, prevWriter,
                               promises, unhandled, writes, sinceLeading>>
           /\ timers' = timersOfEarlierCalls \cup {start.timer} \cup
                        (IF start.invokeNow /\ out.thrown THEN {} ELSE {pause.timer})
    /\ nEdits' = nEdits + 1
    /\ bursts' = IF sinceEdit >= checkValidationOnChangePause.wait
                 THEN bursts + 1 ELSE bursts
    /\ sinceEdit' = 0
    /\ UNCHANGED markers
    /\ UNCHANGED viewVars

(***************************************************************************)
(* timerExpired of the debounced function tm belongs to.  When the timer   *)
(* expires shouldInvoke holds (the function was called once, `wait` ago),  *)
(* so trailingEdge runs, and invokes validationCheck(filename) if trailing *)
(* is set and the arguments were not consumed by a leading invocation.     *)
(***************************************************************************)
\* Faulty variant: the text of the edit that created the timer, captured then.
capturedConfig(tm) == tm.text

\* Faulty variant: the closure reads the value the cell was created with
\* when no configuration was stored yet.
initialConfig(tm) == EmptyText

\* configRef.current, as the call made for timer tm reads it.
currentConfig(tm) == configRef

timerExpired(tm) ==
    /\ tm \in timers
    /\ tm.remaining = 0
    /\ shouldInvoke(tm)
    /\ timers' = timers \ {tm}
    /\ IF trailingEdgeInvokes(tm)
       THEN Invoke(tm, validationCheck(tm.filename, NoOptions, currentConfig(tm)),
                   nEdits)
       ELSE UNCHANGED <<last, calls, configValid, lastWriter, prevWriter,
                        promises, unhandled, writes>>
    /\ UNCHANGED <<configRef, markers, nEdits, sinceEdit, sinceLeading, bursts,
                   held>>
    /\ UNCHANGED viewVars

(***************************************************************************)
(* The promise of alertmanagerConfigSchema.validate settles: exactly one   *)
(* of the .then and the .catch callback runs, some time after the call.    *)
(***************************************************************************)
\* Faulty variant: the success branch writes false.
thenCallbackWritesFalse(p) == setConfigValid(FALSE)

\* .then((_value) => { setConfigValid(true); }): the verdict afterwards.
thenCallback(p) == setConfigValid(TRUE)

\* .catch((_err) => { setConfigValid(false); }): the verdict afterwards.
catchCallback(p) == setConfigValid(FALSE)

\* Faulty variant: a sequencing token; the write of an attempt older than the last
\* writer is dropped.
SettleUnlessStale(p, verdict) ==
    /\ promises' = promises \ {p}
    /\ configValid' = IF p.id < lastWriter.id THEN configValid ELSE verdict
    /\ lastWriter' = Writer(p.id, p.read, TRUE)
    /\ prevWriter' = lastWriter
    /\ writes' = writes + 1
    /\ UNCHANGED <<configRef, timers, markers, nEdits, sinceEdit, sinceLeading,
                   bursts, calls, last, unhandled, held>>
    /\ UNCHANGED viewVars

Settle(p, verdict) ==
    /\ promises' = promises \ {p}
    /\ configValid' = verdict
    /\ lastWriter' = Writer(p.id, p.read, TRUE)
    /\ prevWriter' = lastWriter
    /\ writes' = writes + 1
    /\ UNCHANGED <<configRef, timers, markers, nEdits, sinceEdit, sinceLeading,
                   bursts, calls, last, unhandled, held>>
    /\ UNCHANGED viewVars

validateResolved(p) ==
    /\ p \in promises
    /\ schemaValidate(p.data)
    /\ Settle(p, thenCallback(p))

validateRejected(p) ==
    /\ p \in promises
    /\ ~schemaValidate(p.data)
    /\ Settle(p, catchCallback(p))

(***************************************************************************)
(* The editor widget recomputes the markers of the document on its own.    *)
(***************************************************************************)
setModelMarkers(ms) ==
    /\ mounted
    /\ ~rendered.skeleton
    /\ ms # markers
    /\ markers' = ms
    /\ UNCHANGED <<configRef, configValid, timers, promises, nEdits, sinceEdit,
                   sinceLeading, bursts, calls, last, lastWriter, prevWriter,
                   unhandled, writes, held>>
    /\ UNCHANGED viewVars

(***************************************************************************)
(* Time passes, but not past the expiry of a pending timer.  The two       *)
(* stopwatches stop at the length of the window they measure.              *)
(***************************************************************************)
advance(d) ==
    /\ \A tm \in timers : tm.remaining >= d
    /\ \/ timers # {}
       \/ sinceEdit < checkValidationOnChangePause.wait
       \/ sinceLeading < validationCheckOnChangeStart.wait
    /\ timers' = {[tm EXCEPT !.remaining = @ - d, !.elapsed = @ + d] :
                      tm \in timers}
    /\ sinceEdit' = Min(sinceEdit + d, checkValidationOnChangePause.wait)
    /\ sinceLeading' = Min(sinceLeading + d, validationCheckOnChangeStart.wait)
    /\ UNCHANGED <<configRef, configValid, promises, markers, nEdits, bursts,
                   calls, last, lastWriter, prevWriter, unhandled, writes, held>>
    /\ UNCHANGED viewVars

(***************************************************************************)
(* handleSave: the click on the publish button, which is delivered only    *)
(* while the button is rendered and not disabled.                          *)
(***************************************************************************)
\* Faulty variant: the request carries the stored configuration the editor was
\* opened with.
updateAlertmanagerStored ==
    [tenantId |-> tenant.name,
     header |-> IF alertmanager.loaded THEN alertmanager.header ELSE "",
     config |-> IF alertmanager.loaded THEN alertmanager.config ELSE EmptyText,
     formId |-> FormId]

updateAlertmanager ==
    [tenantId |-> tenant.name,
     header |-> IF alertmanager.loaded THEN alertmanager.header ELSE "",
     config |-> configRef,
     formId |-> FormId]

handleSave ==
    /\ mounted
    /\ ~rendered.skeleton
    /\ ~rendered.publishDisabled
    /\ lastClick.n < MaxPublish
    /\ IF tenant.loaded /\ tenant.name # ""
       THEN /\ dispatched' = Append(dispatched, updateAlertmanager)
            /\ pendingSaves' = pendingSaves + 1
       ELSE UNCHANGED <<dispatched, pendingSaves>>
    /\ lastClick' = [n |-> lastClick.n + 1, verdict |-> configValid,
                     named |-> tenant.loaded /\ tenant.name # "",
                     sent |-> Len(dispatched') > Len(dispatched)]
    /\ UNCHANGED <<tenant, alertmanager, formState, rendered, mounted>>
    /\ UNCHANGED pipelineVars

(***************************************************************************)
(* The hooks' state changes and the component renders again.               *)
(***************************************************************************)
tenantLoaded(tn) ==
    /\ mounted
    /\ ~tenant.loaded
    /\ tenant' = tn
    /\ rendered' = Render(tenant', formState)
    /\ UNCHANGED <<alertmanager, formState, dispatched, pendingSaves, lastClick,
                   mounted>>
    /\ UNCHANGED pipelineVars

formStatusChanged(st) ==
    /\ mounted
    /\ st # formState.status
    /\ formState' = [formState EXCEPT !.status = st]
    /\ rendered' = Render(tenant, formState')
    /\ UNCHANGED <<tenant, alertmanager, dispatched, pendingSaves, lastClick,
                   mounted>>
    /\ UNCHANGED pipelineVars

remoteValidationReceived(r) ==
    /\ mounted
    /\ pendingSaves > 0
    /\ pendingSaves' = pendingSaves - 1
    /\ formState' = [formState EXCEPT !.data.remoteValidation = r]
    /\ rendered' = Render(tenant, formState')
    /\ UNCHANGED <<tenant, alertmanager, dispatched, lastClick, mounted>>
    /\ UNCHANGED pipelineVars

(***************************************************************************)
(* The view is taken off the page.  The component registers no cleanup:    *)
(* the timers of the debounced functions and the promises in flight stay   *)
(* as they are, and their callbacks still run.  The hooks deliver nothing  *)
(* to the component any more and the editor is gone.                       *)
(***************************************************************************)
\* Faulty variant: a cleanup that cancels the debounced functions.
timersAfterCleanup == {}

\* The timers that are pending once the view is gone.
timersAfterUnmount == timers

unmount ==
    /\ mounted
    /\ mounted' = FALSE
    /\ timers' = timersAfterUnmount
    /\ UNCHANGED <<configRef, configValid, promises, markers, nEdits, sinceEdit,
                   sinceLeading, bursts, calls, last, lastWriter, prevWriter,
                   unhandled, writes, held>>
    /\ UNCHANGED <<tenant, alertmanager, formState, rendered, dispatched,
                   pendingSaves, lastClick>>

Next ==
    \/ \E t \in Texts \ {configRef} : handleConfigChange(t, Filename)
    \/ \E tm \in timers : timerExpired(tm)
    \/ \E p \in promises : validateResolved(p)
    \/ \E p \in promises : validateRejected(p)
    \/ \E ms \in SUBSET Markers : setModelMarkers(ms)
    \/ \E d \in Delays : advance(d)
    \/ handleSave
    \/ \E tn \in Tenants : tenantLoaded(tn)
    \/ \E st \in FormStatuses : formStatusChanged(st)
    \/ \E r \in Responses : remoteValidationReceived(r)
    \/ unmount

Spec == Init /\ [][Next]_vars

(***************************************************************************)
(* The behaviours in which the operator only edits: the publish button is  *)
(* not clicked and the form's state stays as it is.                        *)
(***************************************************************************)
NextEditing ==
    \/ \E t \in Texts \ {configRef} : handleConfigChange(t, Filename)
    \/ \E tm \in timers : timerExpired(tm)
    \/ \E p \in promises : validateResolved(p)
    \/ \E p \in promises : validateRejected(p)
    \/ \E ms \in SUBSET Markers : setModelMarkers(ms)
    \/ \E d \in Delays : advance(d)
    \/ \E tn \in Tenants : tenantLoaded(tn)
    \/ unmount

SpecEditing == Init /\ [][NextEditing]_vars

(***************************************************************************)
(* The scheduling of the checks under the event loop's scheduling: time    *)
(* passes, a timer that has run out gets its callback run, and a promise   *)
(* in flight settles.  Nothing obliges the operator to edit.  The markers, *)
(* which no check reads, stay as they are, and the tenant has a name.      *)
(***************************************************************************)
NextScheduling ==
    \/ \E t \in Texts \ {configRef} : handleConfigChange(t, Filename)
    \/ \E tm \in timers : timerExpired(tm)
    \/ \E p \in promises : validateResolved(p)
    \/ \E p \in promises : validateRejected(p)
    \/ \E d \in Delays : advance(d)
    \/ \E tn \in {tn \in Tenants : tn.name # ""} : tenantLoaded(tn)
    \/ unmount

SpecScheduling ==
    /\ Init
    /\ [][NextScheduling]_vars
    /\ WF_vars(\E d \in Delays : advance(d))
    /\ WF_vars(\E tm \in timers : timerExpired(tm))
    /\ WF_vars(\E p \in promises : validateResolved(p))
    /\ WF_vars(\E p \in promises : validateRejected(p))

(***************************************************************************)
(* The behaviours in which the operator edits and publishes before any     *)
(* debounce timer runs out: the timers stay pending, the leading checks    *)
(* and their promises run.                                                 *)
(***************************************************************************)
NextPublishing ==
    \/ \E t \in Texts \ {configRef} : handleConfigChange(t, Filename)
    \/ \E p \in promises : validateResolved(p)
    \/ \E p \in promises : validateRejected(p)
    \/ \E ms \in SUBSET Markers : setModelMarkers(ms)
    \/ handleSave
    \/ \E tn \in Tenants : tenantLoaded(tn)
    \/ \E st \in FormStatuses : formStatusChanged(st)
    \/ \E r \in Responses : remoteValidationReceived(r)
    \/ unmount

SpecPublishing == Init /\ [][NextPublishing]_vars

(***************************************************************************)
(* Claims.                                                                 *)
(***************************************************************************)
\* The verdict a validation of text comes to: true iff the text parses and
\* the parsed data passes the schema.
Verdict(text) ==
    IF yamlLoad(text).ok /\ schemaValidate(yamlLoad(text).data)
    THEN "true" ELSE "false"

\* C1: the leading check starts at most once per 300 ms window: when a
\* leading attempt fires and there was one before it, at least 300 ms lie
\* between the two.
C1_LeadingOncePerWindow ==
    (last.kind = "leading" /\ calls.leading >= 2)
        => last.gap >= validationCheckOnChangeStart.wait

\* C2: the trailing check fires once per burst of edits (edits less than
\* 500 ms apart), not once per edit: there are never more trailing attempts
\* than bursts.
C2_TrailingOncePerBurst == calls.trailing <= bursts

\* C3: an attempt that fires while the editor holds a marker for the
\* document writes false and calls neither the parser nor the validator.
C3_MarkersShortCircuit ==
    (last.id > 0 /\ last.markersPresent)
        => /\ last.wrote = "false"
           /\ last.parseCalls = 0
           /\ last.validateCalls = 0

\* C4: every trailing attempt queries the editor's markers when it fires,
\* and with markers present it writes false.
C4_TrailingConsultsMarkers ==
    last.kind = "trailing"
        => /\ last.queried
           /\ last.markersPresent => last.wrote = "false"

\* C5: an attempt that reads a text which does not parse writes false at
\* once, does not call the validator and lets no error escape; right after
\* it the verdict is false, and it fired within one debounce cycle of the
\* edit that scheduled it.
C5_ParseFailureIsInvalid ==
    (last.id > 0 /\ last.parseCalls > 0 /\ ~yamlLoad(last.read).ok)
        => /\ last.wrote = "false"
           /\ last.validateCalls = 0
           /\ ~last.thrown
           /\ unhandled = 0
           /\ last.delay <= checkValidationOnChangePause.wait
           /\ lastWriter.id = last.id => configValid = "false"

C5_Witness ==
    /\ last.kind = "trailing"
    /\ last.read = MalformedText
    /\ last.wrote = "false"
    /\ configValid = "false"

\* C6: after the completion callbacks of validation attempts have run, the
\* verdict is the result of the attempt whose callback ran last, whatever
\* the order in which the attempts were started.
C6_LastCompletionWins ==
    lastWriter.async => configValid = Verdict(lastWriter.read)

\* Two attempts were in flight together and the one started first
\* completed last, with the other result.
C6_Witness ==
    /\ lastWriter.async /\ prevWriter.async
    /\ prevWriter.id > lastWriter.id
    /\ Verdict(prevWriter.read) # Verdict(lastWriter.read)
    /\ promises = {}

\* C7: a check parses the text the document cell holds when the check
\* fires: the text an attempt read is the cell's content.
C7_ReadsCellAtFireTime ==
    (last.id > 0 /\ last.parseCalls > 0) => last.read = configRef

\* A trailing check fired after a further edit and read that edit's text.
C7_Witness ==
    /\ last.kind = "trailing"
    /\ last.parseCalls > 0
    /\ last.read # last.scheduledWith

\* C8: where the publish button is rendered it is enabled exactly when the
\* form's status is "active", whatever the verdict, and a click sends the
\* save request whenever the tenant has a name, whatever the verdict.
C8_PublishEnabledIffActive ==
    /\ ~rendered.skeleton
          => (rendered.publishDisabled <=> formState.status # "active")
    /\ lastClick.n > 0 => (lastClick.sent <=> lastClick.named)

\* A save request was dispatched while the verdict was false.
C8_Witness ==
    /\ lastClick.sent
    /\ lastClick.verdict = "false"
    /\ Len(dispatched) > 0

\* C9: the error panel is rendered exactly when the latest remote
\* validation result has success = false, and shows its error text.
C9_ErrorPanelIffFailure ==
    /\ rendered.errorPanel.shown <=> ~formState.data.remoteValidation.success
    /\ rendered.errorPanel.shown
          => rendered.errorPanel.text
                 = formState.data.remoteValidation.error_raw_response

C9_Witness ==
    /\ rendered.errorPanel.shown
    /\ rendered.errorPanel.text = "X"

\* C10: the verdict a validation attempt wrote is true if and only if the
\* text it read parses and the parsed data passes the schema (with or
\* without markers, which the attempts do not look at).
C10_ValidIffParsesAndConforms ==
    lastWriter.id > 0
        => (configValid = "true"
               <=> /\ yamlLoad(lastWriter.read).ok
                   /\ schemaValidate(yamlLoad(lastWriter.read).data))

\* A text that parses but lacks the required field got verdict false.
C10_Witness ==
    /\ lastWriter.read = NoRequiredText
    /\ yamlLoad(NoRequiredText).ok
    /\ configValid = "false"
    /\ markers = {}

\* C11: configRef is assigned before the two checks of an edit are called,
\* so no attempt reads a text older than the text of the edit that
\* scheduled it: a leading attempt reads exactly its edit's text, a
\* trailing one the text of its edit or of a later edit.
C11_CellSetBeforeChecks ==
    (last.id > 0 /\ last.parseCalls > 0)
        => /\ last.readEdit >= last.edit
           /\ last.readEdit <= nEdits
           /\ last.kind = "leading"
                 => (last.readEdit = last.edit /\ last.read = last.scheduledWith)

\* The leading attempt of the second edit read the second edit's text,
\* which is not the text the cell held before.
C11_Witness ==
    /\ last.kind = "leading"
    /\ last.edit = 2
    /\ last.readEdit = 2
    /\ last.read = last.scheduledWith
    /\ last.read = configRef
    /\ Cardinality(held) = 3

\* C12: every attempt that fired writes the verdict exactly once, and writes
\* a boolean: an attempt whose parse fails writes false in the firing step
\* and calls no validator; an attempt that calls the validator writes
\* nothing in the firing step and writes once when its promise settles.  So
\* the writes made and the promises still in flight add up to the attempts.
C12_WritesExactlyOnce ==
    /\ writes + Cardinality(promises) = calls.leading + calls.trailing
    /\ \A p \in promises : p.id <= calls.leading + calls.trailing
    /\ unhandled = 0
    /\ writes > 0 => configValid \in {"true", "false"}
    /\ last.id > 0
          => \/ last.wrote = "false" /\ last.validateCalls = 0
             \/ last.wrote = "none" /\ last.validateCalls = 1
    /\ (last.id > 0 /\ last.parseCalls > 0)
          => (last.wrote = "false" <=> ~yamlLoad(last.read).ok)

\* Four attempts fired and all four have written, one of the last two
\* writes in its firing step and the other when its promise settled.
C12_Witness ==
    /\ calls.leading + calls.trailing = 4
    /\ writes = 4
    /\ promises = {}
    /\ lastWriter.async
    /\ ~prevWriter.async
    /\ prevWriter.id > 0

\* C13: a verdict other than unknown is the result of validating a text
\* that configRef held at the current or an earlier moment: the text the
\* last writer read is one of the texts the cell has held, and the verdict
\* is what validating that text comes to.
C13_VerdictOfHeldText ==
    configValid # "null"
        => \E t \in held : /\ t = lastWriter.read
                           /\ configValid = Verdict(t)

\* The verdict is that of a text the cell held earlier, and differs from
\* what the text the cell holds now would get.
C13_Witness ==
    /\ configValid # "null"
    /\ lastWriter.read \in held
    /\ lastWriter.read # configRef
    /\ configValid = Verdict(lastWriter.read)
    /\ configValid # Verdict(configRef)

\* Editing has stopped and every attempt has completed.
Quiescent == nEdits > 0 /\ timers = {} /\ promises = {}

\* C14: a stale overwrite is reachable (C14_Witness), and it is the only
\* way to a wrong final verdict: when every attempt has completed and the
\* verdict differs from the validity of the current document, the newest
\* attempt read the current text, and the last writer is an older attempt,
\* which read an older text and whose promise settled after it.
C14_StaleOverwrite ==
    (Quiescent /\ configValid # Verdict(configRef))
        => /\ last.read = configRef
           /\ lastWriter.async
           /\ lastWriter.id < last.id
           /\ lastWriter.read # configRef
           /\ configValid = Verdict(lastWriter.read)

\* All four attempts of two edits have completed; an attempt that read the
\* first text completed last, and the verdict is not that of the current
\* text.
C14_Witness ==
    /\ Quiescent
    /\ nEdits = 2
    /\ calls.leading + calls.trailing = 4
    /\ writes = 4
    /\ lastWriter.id < last.id
    /\ lastWriter.read # configRef
    /\ configValid # Verdict(configRef)

\* No debounce timer is pending.
Idle == timers = {}

\* A trailing check is pending.
PendingTrailing == \E tm \in timers : tm.kind = "trailing"

\* The steps the scheduling may take, as C15 has them.
BurstStep ==
    /\ (Idle /\ ~Idle')
          => (/\ nEdits' = nEdits + 1
              /\ calls'.leading = calls.leading + 1
              /\ calls'.trailing = calls.trailing
              /\ last'.kind = "leading"
              /\ last'.edit = nEdits'
              /\ PendingTrailing')
    /\ (calls'.trailing = calls.trailing + 1)
          => (/\ last'.kind = "trailing"
              /\ last'.edit <= calls.leading
              /\ nEdits' = nEdits)
    /\ (~Idle /\ Idle')
          => (/\ calls'.trailing = calls.trailing + 1
              /\ calls'.trailing = nEdits)

\* C15: the scheduling goes Idle -> leading and trailing pending -> trailing
\* pending -> Idle.  The system leaves Idle only by an edit, whose leading
\* check fires in the edit's own step and whose trailing check is then
\* pending; a trailing check fires only after the leading check of its
\* edit; the system comes back to Idle only by a trailing check firing, and
\* in Idle every edit has had both its checks; and whenever a check is
\* pending the system eventually is Idle again.
C15_BurstStateMachine ==
    /\ [][BurstStep]_vars
    /\ [](Idle => (calls.leading = nEdits /\ calls.trailing = nEdits))
    /\ (~Idle ~> Idle)

\* One edit, its leading check, and 500 ms later its trailing check: the
\* system is Idle again.
C15_Witness ==
    /\ Idle
    /\ nEdits = 1
    /\ calls.leading = 1
    /\ calls.trailing = 1
    /\ last.kind = "trailing"
    /\ last.delay = 500

\* The trailing checks that are pending.
pendingTrailing == {tm \in timers : tm.kind = "trailing"}

\* What taking the view off the page leaves alone, as C16 has it.
TeardownStep ==
    (mounted /\ ~mounted')
        => (timers' = timers /\ promises' = promises /\ configValid' = configValid)

\* C16: tearing the view down cancels no debounce timer.  The teardown step
\* leaves the timers and the promises as they are; after it no trailing
\* check is lost (those that fired and those pending are as many as the
\* edits); an attempt that fires after it runs the parse and either writes
\* false or calls the validator; and a trailing check pending at teardown
\* does fire afterwards, and the attempts all write the verdict.
C16_TeardownCancelsNothing ==
    /\ [][TeardownStep]_vars
    /\ [](~mounted => calls.trailing + Cardinality(pendingTrailing) = nEdits)
    /\ [](last.disposed
             => /\ last.parseCalls = 1
                /\ last.wrote = "false" \/ last.validateCalls = 1)
    /\ ((~mounted /\ PendingTrailing)
           ~> /\ ~mounted
              /\ last.disposed
              /\ last.kind = "trailing"
              /\ calls.trailing = nEdits
              /\ Idle)
    /\ (~mounted ~> (promises = {} /\ writes = calls.leading + calls.trailing))

\* After the teardown a trailing check fired, parsed the text and its write
\* is the verdict.
C16_Witness ==
    /\ ~mounted
    /\ last.disposed
    /\ last.kind = "trailing"
    /\ last.parseCalls = 1
    /\ lastWriter.id = last.id
    /\ configValid = Verdict(last.read)

\* C17: every call of handleConfigChange has its own pair of debounced
\* functions.  After n edits n leading attempts have fired, each in its
\* edit's step; no trailing check is lost or merged (those fired and those
\* pending are n, one per edit); a pending timer runs on from its own
\* edit, whatever edits follow; and a trailing attempt fires 500 ms after
\* its edit.
C17_FreshPairPerEdit ==
    /\ calls.leading = nEdits
    /\ calls.trailing + Cardinality(pendingTrailing) = nEdits
    /\ \A tm \in timers : /\ tm.elapsed + tm.remaining = tm.wait
                          /\ tm.edit <= nEdits
    /\ \A tm1, tm2 \in pendingTrailing : tm1.edit = tm2.edit => tm1 = tm2
    /\ last.kind = "leading" => (last.delay = 0 /\ last.edit = nEdits)
    /\ last.kind = "trailing"
          => (last.delay = checkValidationOnChangePause.wait
              /\ last.edit <= nEdits)

\* Two edits in one burst: two leading and two trailing attempts fired.
C17_Witness ==
    /\ nEdits = 2
    /\ bursts = 1
    /\ calls.leading = 2
    /\ calls.trailing = 2
    /\ timers = {}

\* What a step may do to the verdict, as C18 has it.
VerdictStep ==
    /\ configValid # "null" => configValid' # "null"
    /\ writes' = writes => configValid' = configValid
    /\ writes' # writes => configValid' \in {"true", "false"}

\* C18: the verdict is unknown exactly until the first write of a
\* validation attempt and never afterwards.  A step that writes nothing (an
\* edit whose check starts a schema validation, a click on publish, a
\* change of the form) leaves the verdict as it is, so the verdict stays
\* the previous attempt's boolean while a newer attempt is in flight.
C18_NeverUnknownAgain ==
    /\ [][VerdictStep]_vars
    /\ [](configValid = "null" <=> writes = 0)

\* The verdict is the first attempt's boolean while the second edit's
\* attempt is in flight and after a click on publish.
C18_Witness ==
    /\ writes > 0
    /\ configValid = Verdict(lastWriter.read)
    /\ nEdits = 2
    /\ lastClick.n > 0
    /\ \E p \in promises : p.id > lastWriter.id /\ p.read # lastWriter.read

\* What a click on publish does, as C19 has it.
PublishStep ==
    (lastClick'.n = lastClick.n + 1)
        => /\ configRef' = configRef
           /\ configValid' = configValid
           /\ timers' = timers
           /\ promises' = promises
           /\ IF tenant.loaded /\ tenant.name # ""
              THEN /\ Len(dispatched') = Len(dispatched) + 1
                   /\ dispatched'[Len(dispatched')].config = configRef
                   /\ dispatched'[Len(dispatched')].tenantId = tenant.name
                   /\ SubSeq(dispatched', 1, Len(dispatched)) = dispatched
              ELSE dispatched' = dispatched

\* C19: a click on publish dispatches one request with the text configRef
\* holds at the click, whatever the state of its validation, or nothing
\* when the tenant has no name; and it leaves configRef, the verdict, the
\* pending timers and the promises in flight as they are.
C19_PublishSendsCell ==
    [][PublishStep]_vars

\* The request carries the text of the latest edit, whose validation is
\* still in flight and whose timers are pending.
C19_Witness ==
    /\ lastClick.sent
    /\ Len(dispatched) = 1
    /\ dispatched[1].config = configRef
    /\ configRef # alertmanager.config
    /\ nEdits = 2
    /\ \E p \in promises : p.id = last.id /\ p.read = configRef
    /\ \E tm \in timers : tm.edit = nEdits /\ tm.kind = "trailing"

====
